---- MODULE Spec2Model ----
(***************************************************************************)
(* Student Grievance Redressal System (src/app.py): the grievance store    *)
(* and the request handlers that write it, as a state machine.             *)
(*                                                                         *)
(* Requests are served concurrently, one worker per request, against one   *)
(* database.  A handler whose write depends on what it read (submit:       *)
(* the last ticket; escalate: the loaded row; feedback: the presence       *)
(* check) is split at its commit, so the store may change between its read *)
(* and its write.  update_grievance and register write values taken from   *)
(* the request and are one step each.  The ORM writes at commit the        *)
(* columns whose value differs from the value it loaded.                   *)
(*                                                                         *)
(* Strings that the code formats, parses, strips or pattern-matches are    *)
(* sequences of one-character strings; strings the code only compares are  *)
(* TLA+ strings.  Time is counted in days.  Columns no handler modelled    *)
(* here reads or tests (password, created_at, updated_at) are left out.    *)
(***************************************************************************)
EXTENDS Integers, Sequences, FiniteSets, TLC

\* ------------------------------------------------------------------ bounds
NumProcs == 2        \* concurrent request workers
MaxRequests == 3     \* requests the model lets begin
MaxNow == 2          \* days the model lets pass
MaxTable == 2        \* rows of a drawn user table (routing specification)
MaxStatRows == 3     \* rows of a drawn grievance table (stats specification)

NULL == 0            \* SQL NULL / Python None where a row id is expected (ids start at 1)
NoTime == -1         \* SQL NULL where a timestamp is expected (times start at 0)
NoText == "None"     \* SQL NULL where a string is expected

Procs == 1..NumProcs

\* --------------------------------------------------------- text helpers
DigitChars == <<"0", "1", "2", "3", "4", "5", "6", "7", "8", "9">>

\* str(n) for n >= 0
RECURSIVE Decimal(_)
Decimal(n) ==
    IF n < 10 THEN <<DigitChars[n + 1]>>
    ELSE Decimal(n \div 10) \o <<DigitChars[(n % 10) + 1]>>

\* f'{n:0{width}d}': zero padded to at least width characters, never cut
RECURSIVE ZeroPad(_, _)
ZeroPad(s, width) == IF Len(s) >= width THEN s ELSE ZeroPad(<<"0">> \o s, width)

IsDigits(s) == Len(s) > 0 /\ \A i \in 1..Len(s) : \E d \in 1..10 : DigitChars[d] = s[i]

DigitValue(c) == (CHOOSE d \in 1..10 : DigitChars[d] = c) - 1

\* int(s) for a string of decimal digits
RECURSIVE ParseInt(_)
ParseInt(s) ==
    IF Len(s) = 0 THEN 0
    ELSE 10 * ParseInt(SubSeq(s, 1, Len(s) - 1)) + DigitValue(s[Len(s)])

\* s.split('-')[-1]: what follows the last '-'
RECURSIVE LastField(_)
LastField(s) ==
    IF Len(s) = 0 \/ s[Len(s)] = "-" THEN <<>>
    ELSE LastField(SubSeq(s, 1, Len(s) - 1)) \o <<s[Len(s)]>>

\* column LIKE 'prefix%'
Like(s, prefix) == Len(s) >= Len(prefix) /\ SubSeq(s, 1, Len(prefix)) = prefix

\* s.strip()
RECURSIVE Strip(_)
Strip(s) ==
    IF Len(s) = 0 THEN s
    ELSE IF s[1] = " " THEN Strip(Tail(s))
    ELSE IF s[Len(s)] = " " THEN Strip(SubSeq(s, 1, Len(s) - 1))
    ELSE s

\* --------------------------------------------------------------- the clock
\* datetime.utcnow() is the variable now, in days since 2026-02-27.
EpochDate == [y |-> 2026, m |-> 2, d |-> 27]

IsLeap(y) == (y % 4 = 0 /\ y % 100 # 0) \/ y % 400 = 0

DaysInMonth(y, m) ==
    IF m = 2 THEN (IF IsLeap(y) THEN 29 ELSE 28)
    ELSE IF m \in {4, 6, 9, 11} THEN 30 ELSE 31

NextDate(dt) ==
    IF dt.d < DaysInMonth(dt.y, dt.m) THEN [dt EXCEPT !.d = dt.d + 1]
    ELSE IF dt.m < 12 THEN [y |-> dt.y, m |-> dt.m + 1, d |-> 1]
    ELSE [y |-> dt.y + 1, m |-> 1, d |-> 1]

RECURSIVE DateAfter(_, _)
DateAfter(dt, n) == IF n = 0 THEN dt ELSE DateAfter(NextDate(dt), n - 1)

\* the calendar date of a time
DateOf(t) == DateAfter(EpochDate, t)

\* t.strftime('%Y%m%d')
StrfYmd(t) ==
    LET dt == DateOf(t)
    IN  ZeroPad(Decimal(dt.y), 4) \o ZeroPad(Decimal(dt.m), 2) \o ZeroPad(Decimal(dt.d), 2)

\* t + timedelta(days=n)
PlusDays(t, n) == t + n

\* ------------------------------------------------------------- the store
VARIABLES
    now,         \* datetime.utcnow()
    users,       \* table user, in id order (id = index)
    grievances,  \* table grievance, in id order (id = index)
    updates,     \* table grievance_update, in id order
    feedbacks,   \* table feedback, in id order
    pc,          \* per worker: the point its handler has reached
    req,         \* per worker: the handler's local values
    response,    \* what the step just taken returned to its caller, if anything
    served       \* requests begun so far

vars == <<now, users, grievances, updates, feedbacks, pc, req, response, served>>

\* init_db: one admin and one authority per category
SeedUsers ==
    << [id |-> 1, username |-> "admin", email |-> "admin@university.edu",
        role |-> "admin", department |-> "administration"],
       [id |-> 2, username |-> "academic_head", email |-> "academic_head@university.edu",
        role |-> "authority", department |-> "academic"],
       [id |-> 3, username |-> "admin_officer", email |-> "admin_officer@university.edu",
        role |-> "authority", department |-> "administrative"],
       [id |-> 4, username |-> "hostel_warden", email |-> "hostel_warden@university.edu",
        role |-> "authority", department |-> "hostel"],
       [id |-> 5, username |-> "exam_controller", email |-> "exam_controller@university.edu",
        role |-> "authority", department |-> "examination"] >>

\* ------------------------------------------------------- request inputs
\* POST /register forms (username and email as stripped by the handler)
RegisterForms ==
    { [username |-> "asha", email |-> "asha@university.edu", role |-> "student",
       department |-> "hostel"],
      [username |-> "ravi", email |-> "admin@university.edu", role |-> "authority",
       department |-> "canteen"],
      [username |-> "ravi", email |-> "ravi@university.edu", role |-> "authority",
       department |-> "canteen"] }

\* POST /grievance/new forms
SubmitForms ==
    { [is_anonymous |-> FALSE, title |-> <<"L", "e", "a", "k", " ">>,
       description |-> <<"p", "i", "p", "e">>, category |-> "hostel", priority |-> "urgent"],
      [is_anonymous |-> TRUE, title |-> <<" ">>,
       description |-> <<"p", "i", "p", "e">>, category |-> "canteen", priority |-> "asap"] }

\* priority and category values of the routing specification
AllPriorities == {"low", "medium", "high", "urgent", "asap", ""}
AllCategories == {"academic", "hostel", "canteen", ""}

\* POST /grievance/<gid>/update forms
UpdateForms ==
    { [message |-> <<" ", "o", "k">>, status |-> "resolved", assigned_to |-> <<>>],
      [message |-> <<" ">>, status |-> "in_progress", assigned_to |-> <<"4">>],
      [message |-> <<"o", "k">>, status |-> "", assigned_to |-> <<>>],
      [message |-> <<>>, status |-> "closed", assigned_to |-> <<>>] }

\* POST /grievance/<gid>/feedback forms (has_rating: the field is present)
FeedbackForms ==
    { [has_rating |-> FALSE, rating |-> <<>>, comment |-> <<"o", "k", " ">>],
      [has_rating |-> TRUE, rating |-> <<"9">>, comment |-> <<>>] }

\* the <gid> of a request: a stored grievance or the first id not stored
Gids == 1..(Len(grievances) + 1)

Idle == [op |-> "none"]
NoResponse == [to |-> 0, outcome |-> "none"]

\* ------------------------------------------------------------ queries
\* Query.first() with no ORDER BY: of the rows matched (a set of ids), the
\* one of lowest id, or NULL
FirstOf(matched) ==
    IF matched # {} THEN CHOOSE i \in matched : \A j \in matched : i <= j ELSE NULL

\* Query.filter(ticket_id.like(prefix%)).order_by(id.desc()).first(): from
\* row i downwards, the first row whose ticket_id has the prefix, or NULL
RECURSIVE LastLike(_, _, _)
LastLike(table, prefix, i) ==
    IF i = 0 THEN NULL
    ELSE IF Like(table[i].ticket_id, prefix) THEN i
    ELSE LastLike(table, prefix, i - 1)

\* a plausible slip: one audit row per grievance, overwritten by the latest
add_update_latest_only(table, entry) ==
    SelectSeq(table, LAMBDA u : u.grievance_id # entry.grievance_id) \o <<entry>>

\* db.session.add(update); db.session.commit(): INSERT INTO grievance_update
add_update(table, entry) == Append(table, entry)

\* Query.filter(...): the ids of the rows of a table that pass a test
Rows(table) == 1..Len(table)

\* session.get('user_id'): absent, or the id login stored: the admin, the
\* hostel authority or a registered user
Sessions == {NULL, 1, 4} \cup (Len(SeedUsers) + 1..Len(users))

\* ------------------------------------------------------ helper functions
TicketId(today, num) == <<"G", "R", "V", "-">> \o today \o <<"-">> \o ZeroPad(Decimal(num), 4)

TodayPrefix(t) == <<"G", "R", "V", "-">> \o StrfYmd(t) \o <<"-">>

\* a plausible slip: the last ticket of any day, the date filter left out
generate_ticket_id_any_day(t, table) ==
    LET today == StrfYmd(t)
        num == IF Len(table) > 0
               THEN ParseInt(LastField(table[Len(table)].ticket_id)) + 1 ELSE 1
    IN  TicketId(today, num)

generate_ticket_id(t, table) ==
    LET today == StrfYmd(t)
        last == LastLike(table, TodayPrefix(t), Len(table))
        num == IF last # NULL THEN ParseInt(LastField(table[last].ticket_id)) + 1 ELSE 1
    IN  TicketId(today, num)

\* a plausible slip: the default of days_map.get taken from the wrong entry
days_map_default_low(priority) ==
    CASE priority = "low" -> 14
      [] priority = "medium" -> 7
      [] priority = "high" -> 3
      [] priority = "urgent" -> 1
      [] OTHER -> 14

days_map(priority) ==
    CASE priority = "low" -> 14
      [] priority = "medium" -> 7
      [] priority = "high" -> 3
      [] priority = "urgent" -> 1
      [] OTHER -> 7

get_deadline(t, priority) == PlusDays(t, days_map(priority))

\* a plausible slip: the department filter left out
auto_assign_any_authority(table, category) ==
    LET authority == FirstOf({i \in Rows(table) : table[i].role = "authority"})
        fallback == IF authority = NULL
                    THEN FirstOf({i \in Rows(table) : table[i].role = "admin"})
                    ELSE authority
    IN  IF fallback # NULL THEN table[fallback].id ELSE NULL

auto_assign(table, category) ==
    LET authority == FirstOf({i \in Rows(table) :
                                 table[i].role = "authority" /\ table[i].department = category})
        fallback == IF authority = NULL
                    THEN FirstOf({i \in Rows(table) : table[i].role = "admin"})
                    ELSE authority
    IN  IF fallback # NULL THEN table[fallback].id ELSE NULL

\* ------------------------------------------------------------ the clock
Tick ==
    /\ now < MaxNow
    /\ now' = now + 1
    /\ response' = NoResponse
    /\ UNCHANGED <<users, grievances, updates, feedbacks, pc, req, served>>

\* ------------------------------------------------------------- register
\* the handler returns: outcome is the category of the message it flashed,
\* the status it aborted with (404) or the exception that ended it (HTTP 500)
Finish(p, outcome) ==
    /\ pc' = [pc EXCEPT ![p] = "idle"]
    /\ req' = [req EXCEPT ![p] = Idle]
    /\ response' = [to |-> p, outcome |-> outcome]

\* a worker takes a request
Begin(p) ==
    /\ pc[p] = "idle"
    /\ served < MaxRequests
    /\ served' = served + 1

\* the handler goes on to its commit
Continue(p, at, locals) ==
    /\ pc' = [pc EXCEPT ![p] = at]
    /\ req' = [req EXCEPT ![p] = locals]
    /\ response' = NoResponse

RegisterWith(p, form) ==
    /\ Begin(p)
    /\ LET name_taken == FirstOf({i \in Rows(users) : users[i].username = form.username})
           email_taken == FirstOf({i \in Rows(users) : users[i].email = form.email})
       IN  IF name_taken # NULL \/ email_taken # NULL
           THEN /\ Finish(p, "danger")
                /\ UNCHANGED users
           ELSE /\ users' = Append(users,
                       [id |-> Len(users) + 1, username |-> form.username,
                        email |-> form.email, role |-> form.role,
                        department |-> IF form.role = "authority"
                                       THEN form.department ELSE NoText])
                /\ Finish(p, "success")
    /\ UNCHANGED <<now, grievances, updates, feedbacks>>

Register(p) == \E form \in RegisterForms : RegisterWith(p, form)

\* ------------------------------------------------------ submit_grievance
SubmitMessage == <<"Grievance submitted successfully and routed to the concerned authority.">>

\* a plausible slip: the session user recorded whatever the flag
student_id_of_session(actor, is_anonymous) == actor

\* session.get('user_id') if not is_anonymous else None
student_id_for(actor, is_anonymous) == IF ~is_anonymous THEN actor ELSE NULL

\* the handler up to db.session.add: form, session, the three helper calls
SubmitPrepare(p, actor, form) ==
    /\ Begin(p)
    /\ Continue(p, "submit_insert",
           [op |-> "submit",
            actor |-> actor,
            row |-> [ticket_id |-> generate_ticket_id(now, grievances),
                     title |-> Strip(form.title),
                     description |-> Strip(form.description),
                     category |-> form.category,
                     priority |-> form.priority,
                     status |-> "submitted",
                     is_anonymous |-> form.is_anonymous,
                     student_id |-> student_id_for(actor, form.is_anonymous),
                     assigned_to |-> auto_assign(users, form.category),
                     resolved_at |-> NoTime,
                     deadline |-> get_deadline(now, form.priority),
                     escalation_level |-> 0]])
    /\ UNCHANGED <<now, users, grievances, updates, feedbacks>>

Submit(p) == \E actor \in Sessions, form \in SubmitForms : SubmitPrepare(p, actor, form)

\* a plausible slip: the column declared without unique=True
TicketTakenUnchecked(table, ticket_id) == FALSE

\* the UNIQUE constraint of grievance.ticket_id
TicketTaken(table, ticket_id) == \E i \in 1..Len(table) : table[i].ticket_id = ticket_id

\* the first commit: INSERT INTO grievance
SubmitInsert(p) ==
    /\ pc[p] = "submit_insert"
    /\ IF TicketTaken(grievances, req[p].row.ticket_id)
       THEN /\ Finish(p, "IntegrityError")
            /\ UNCHANGED grievances
       ELSE /\ grievances' = Append(grievances,
                   [id |-> Len(grievances) + 1] @@ req[p].row)
            /\ Continue(p, "submit_audit",
                   [op |-> "submit", actor |-> req[p].actor, gid |-> Len(grievances) + 1])
    /\ UNCHANGED <<now, users, updates, feedbacks, served>>

\* the second commit: the initial GrievanceUpdate
SubmitAudit(p) ==
    /\ pc[p] = "submit_audit"
    /\ updates' = add_update(updates,
           [grievance_id |-> req[p].gid, user_id |-> NULL,
            message |-> SubmitMessage, status_change |-> "submitted"])
    /\ Finish(p, "success")
    /\ UNCHANGED <<now, users, grievances, feedbacks, served>>

\* ------------------------------------------------------- login_required
\* the decorator sends a request without session to the login page
LoggedIn(actor) == actor # NULL

\* ------------------------------------------------------ update_grievance
\* a plausible slip: the role test of the status branch left out
may_set_status_anyone(role) == TRUE

\* user.role in ('authority', 'admin')
may_set_status(role) == role \in {"authority", "admin"}

\* user.role == 'admin'
may_set_assignee(role) == role = "admin"

\* a plausible slip: the timestamp kept for 'resolved' alone
sets_resolved_at_resolved_only(new_status) == new_status = "resolved"

\* new_status in ('resolved', 'closed')
sets_resolved_at(new_status) == new_status \in {"resolved", "closed"}

UpdateWith(p, actor, gid, form) ==
    /\ Begin(p)
    /\ IF ~LoggedIn(actor)
       THEN /\ Finish(p, "warning")
            /\ UNCHANGED <<grievances, updates>>
       ELSE IF gid > Len(grievances)
       THEN /\ Finish(p, "404")
            /\ UNCHANGED <<grievances, updates>>
       ELSE LET user == users[actor]
                message == Strip(form.message)
                new_status == form.status
                new_assignee == form.assigned_to
                set_status == new_status # "" /\ may_set_status(user.role)
                set_assignee == new_assignee # <<>> /\ may_set_assignee(user.role)
            IN  IF set_assignee /\ ~IsDigits(new_assignee)
                THEN /\ Finish(p, "ValueError")
                     /\ UNCHANGED <<grievances, updates>>
                ELSE /\ grievances' = [grievances EXCEPT ![gid] =
                            [@ EXCEPT
                               !.status = IF set_status THEN new_status ELSE @,
                               !.resolved_at =
                                   IF set_status /\ sets_resolved_at(new_status)
                                   THEN now ELSE @,
                               !.assigned_to =
                                   IF set_assignee THEN ParseInt(new_assignee) ELSE @]]
                     /\ updates' =
                            IF message # <<>>
                            THEN add_update(updates,
                                     [grievance_id |-> gid, user_id |-> user.id,
                                      message |-> message,
                                      status_change |->
                                          IF new_status # "" THEN new_status ELSE NoText])
                            ELSE updates
                     /\ Finish(p, "success")
    /\ UNCHANGED <<now, users, feedbacks>>

Update(p) ==
    \E actor \in Sessions, gid \in Gids, form \in UpdateForms : UpdateWith(p, actor, gid, form)

\* ---------------------------------------------------- escalate_grievance
EscalateMessage(level) ==
    <<"Grievance escalated to level ">> \o Decimal(level)
        \o <<". Reassigned to administration.">>

\* Grievance.query.get_or_404: the row as the session now holds it
EscalateLoad(p, actor, gid) ==
    /\ Begin(p)
    /\ IF ~LoggedIn(actor)
       THEN Finish(p, "warning")
       ELSE IF gid > Len(grievances)
       THEN Finish(p, "404")
       ELSE Continue(p, "escalate_commit",
                [op |-> "escalate", gid |-> gid, actor |-> actor,
                 status |-> grievances[gid].status,
                 escalation_level |-> grievances[gid].escalation_level,
                 assigned_to |-> grievances[gid].assigned_to])
    /\ UNCHANGED <<now, users, grievances, updates, feedbacks>>

Escalate(p) == \E actor \in Sessions, gid \in Gids : EscalateLoad(p, actor, gid)

\* the flush and commit: UPDATE of the columns whose value differs from the
\* loaded one, INSERT of the audit entry
EscalateCommit(p) ==
    /\ pc[p] = "escalate_commit"
    /\ LET gid == req[p].gid
           level == req[p].escalation_level + 1
           admin == FirstOf({i \in Rows(users) : users[i].role = "admin"})
       IN  /\ grievances' = [grievances EXCEPT ![gid] =
                  [@ EXCEPT
                     !.status = IF req[p].status # "escalated" THEN "escalated" ELSE @,
                     !.escalation_level = level,
                     !.assigned_to =
                         IF admin # NULL /\ users[admin].id # req[p].assigned_to
                         THEN users[admin].id ELSE @]]
           /\ updates' = add_update(updates,
                  [grievance_id |-> gid, user_id |-> req[p].actor,
                   message |-> EscalateMessage(level), status_change |-> "escalated"])
    /\ Finish(p, "warning")
    /\ UNCHANGED <<now, users, feedbacks, served>>

\* ------------------------------------------------------- submit_feedback
\* a plausible slip: the presence check left out
HasFeedbackUnchecked(gid) == FALSE

\* grievance.feedback: a feedback row of the grievance exists
HasFeedback(gid) == \E i \in 1..Len(feedbacks) : feedbacks[i].grievance_id = gid

\* the handler up to db.session.add: the presence check and the form
FeedbackCheck(p, actor, gid, form) ==
    /\ Begin(p)
    /\ IF ~LoggedIn(actor)
       THEN Finish(p, "warning")
       ELSE IF gid > Len(grievances)
       THEN Finish(p, "404")
       ELSE IF HasFeedback(gid)
       THEN Finish(p, "info")
       ELSE IF form.has_rating /\ ~IsDigits(form.rating)
       THEN Finish(p, "ValueError")
       ELSE Continue(p, "feedback_insert",
                [op |-> "feedback",
                 row |-> [grievance_id |-> gid, user_id |-> actor,
                          rating |-> IF form.has_rating THEN ParseInt(form.rating) ELSE 3,
                          comment |-> Strip(form.comment)]])
    /\ UNCHANGED <<now, users, grievances, updates, feedbacks>>

Feedback(p) ==
    \E actor \in Sessions, gid \in Gids, form \in FeedbackForms :
        FeedbackCheck(p, actor, gid, form)

\* the commit: INSERT INTO feedback
FeedbackInsert(p) ==
    /\ pc[p] = "feedback_insert"
    /\ feedbacks' = Append(feedbacks, req[p].row)
    /\ Finish(p, "success")
    /\ UNCHANGED <<now, users, grievances, updates, served>>

\* ------------------------------------------------------ grievance_detail
\* a page handed to the browser: who asked and which grievance row it shows
Show(p, page, actor, gid) ==
    /\ pc' = [pc EXCEPT ![p] = "idle"]
    /\ req' = [req EXCEPT ![p] = Idle]
    /\ response' = [to |-> p, outcome |-> page, viewer |-> actor, grievance |-> gid]

\* a plausible slip: the ownership test left out of the access control
detail_denied_never(role, student_id, user_id) == FALSE

\* user.role == 'student' and grievance.student_id != user.id; the handler
\* then flashes 'Access denied.' and redirects (outcome "denied")
detail_denied(role, student_id, user_id) == role = "student" /\ student_id # user_id

DetailOf(p, actor, gid) ==
    /\ Begin(p)
    /\ IF ~LoggedIn(actor)
       THEN Finish(p, "warning")
       ELSE IF gid > Len(grievances)
       THEN Finish(p, "404")
       ELSE IF detail_denied(users[actor].role, grievances[gid].student_id, users[actor].id)
       THEN Finish(p, "denied")
       ELSE Show(p, "grievance_detail", actor, gid)
    /\ UNCHANGED <<now, users, grievances, updates, feedbacks>>

Detail(p) == \E actor \in Sessions, gid \in Gids : DetailOf(p, actor, gid)

\* -------------------------------------------------------- track_grievance
\* the ticket ids a visitor types: each stored one, with a trailing blank,
\* and one that names no grievance
TrackInputs ==
    { grievances[i].ticket_id \o <<" ">> : i \in Rows(grievances) } \cup { <<"G", "R", "V">> }

\* the route carries no login_required: the session plays no part
TrackOf(p, actor, typed) ==
    /\ Begin(p)
    /\ LET ticket_id == Strip(typed)
           grievance == FirstOf({i \in Rows(grievances) :
                                    grievances[i].ticket_id = ticket_id})
       IN  IF grievance = NULL
           THEN Finish(p, "danger")
           ELSE Show(p, "track", actor, grievance)
    /\ UNCHANGED <<now, users, grievances, updates, feedbacks>>

Track(p) == \E actor \in Sessions, typed \in TrackInputs : TrackOf(p, actor, typed)

\* -------------------------------------------------------------- dashboard
\* the grievances the role's query selects (the order of the list plays no
\* part in the counts)
dashboard_grievances(user) ==
    IF user.role = "student"
    THEN SelectSeq(grievances, LAMBDA g : g.student_id = user.id)
    ELSE IF user.role = "authority"
    THEN SelectSeq(grievances, LAMBDA g : g.assigned_to = user.id)
    ELSE grievances

\* a plausible slip: the status test left out of the overdue filter
is_overdue_any_status(g, t) == g.deadline # NoTime /\ g.deadline < t

\* g.deadline and g.deadline < now and g.status not in ('resolved', 'closed')
is_overdue(g, t) ==
    g.deadline # NoTime /\ g.deadline < t /\ g.status \notin {"resolved", "closed"}

compute_stats(list, t) ==
    [total |-> Len(list),
     pending |-> Len(SelectSeq(list,
                     LAMBDA g : g.status \in {"submitted", "in_review", "in_progress"})),
     resolved |-> Len(SelectSeq(list, LAMBDA g : g.status \in {"resolved", "closed"})),
     escalated |-> Len(SelectSeq(list, LAMBDA g : g.status = "escalated")),
     overdue |-> Len(SelectSeq(list, LAMBDA g : is_overdue(g, t)))]

DashboardOf(p, actor) ==
    /\ Begin(p)
    /\ IF ~LoggedIn(actor)
       THEN Finish(p, "warning")
       ELSE /\ pc' = [pc EXCEPT ![p] = "idle"]
            /\ req' = [req EXCEPT ![p] = Idle]
            /\ response' = [to |-> p, outcome |-> "dashboard", viewer |-> actor,
                            stats |-> compute_stats(dashboard_grievances(users[actor]), now)]
    /\ UNCHANGED <<now, users, grievances, updates, feedbacks>>

Dashboard(p) == \E actor \in Sessions : DashboardOf(p, actor)

\* ------------------------------------------------------------------------
Init ==
    /\ now = 0
    /\ users = SeedUsers
    /\ grievances = <<>>
    /\ updates = <<>>
    /\ feedbacks = <<>>
    /\ pc = [p \in Procs |-> "idle"]
    /\ req = [p \in Procs |-> Idle]
    /\ response = NoResponse
    /\ served = 0

Next ==
    \/ Tick
    \/ \E p \in Procs : Register(p)
    \/ \E p \in Procs : Submit(p)
    \/ \E p \in Procs : SubmitInsert(p)
    \/ \E p \in Procs : SubmitAudit(p)
    \/ \E p \in Procs : Update(p)
    \/ \E p \in Procs : Escalate(p)
    \/ \E p \in Procs : EscalateCommit(p)
    \/ \E p \in Procs : Feedback(p)
    \/ \E p \in Procs : FeedbackInsert(p)

Spec == Init /\ [][Next]_vars

\* ---------------------------------------------------- the pages that read
\* The handlers above together with the three that only read the store.
NextViews ==
    \/ Next
    \/ \E p \in Procs : Detail(p)
    \/ \E p \in Procs : Track(p)
    \/ \E p \in Procs : Dashboard(p)

SpecViews == Init /\ [][NextViews]_vars

\* ------------------------------------------------- routing specification
\* auto_assign and get_deadline read the user table, the category, the
\* priority and the clock: one submission, over every user table of at most
\* MaxTable rows and every category and priority.
UserKinds ==
    { [role |-> "student", department |-> NoText],
      [role |-> "admin", department |-> NoText],
      [role |-> "authority", department |-> "hostel"],
      [role |-> "authority", department |-> "academic"] }

UserTable(kinds) ==
    [i \in 1..Len(kinds) |->
        [id |-> i, username |-> <<"user", i>>, email |-> <<"user", i, "@university.edu">>,
         role |-> kinds[i].role, department |-> kinds[i].department]]

UserTables == UNION {{UserTable(kinds) : kinds \in [1..n -> UserKinds]} : n \in 0..MaxTable}

RoutingForms ==
    { [is_anonymous |-> FALSE, title |-> <<"L", "e", "a", "k">>,
       description |-> <<"p", "i", "p", "e">>, category |-> c, priority |-> pr] :
      c \in AllCategories, pr \in AllPriorities }

SubmitRouted(p) == \E form \in RoutingForms : SubmitPrepare(p, NULL, form)

InitRouting ==
    /\ now \in 0..MaxNow
    /\ users \in UserTables
    /\ grievances = <<>>
    /\ updates = <<>>
    /\ feedbacks = <<>>
    /\ pc = [p \in Procs |-> "idle"]
    /\ req = [p \in Procs |-> Idle]
    /\ response = NoResponse
    /\ served = MaxRequests - 1

NextRouting ==
    \/ Tick
    \/ \E p \in Procs : SubmitRouted(p)
    \/ \E p \in Procs : SubmitInsert(p)
    \/ \E p \in Procs : SubmitAudit(p)

SpecRouting == InitRouting /\ [][NextRouting]_vars

\* --------------------------------------------------- stats specification
\* compute_stats reads a list of grievances and the clock: one dashboard
\* request, over every table of at most MaxStatRows grievances submitted on
\* day 0, of every status, urgent or medium priority, routed to the admin or
\* to the hostel authority.
AllStatuses == {"submitted", "in_review", "in_progress", "escalated", "resolved", "closed"}

StatKinds ==
    { [status |-> s, priority |-> pr, assigned_to |-> a] :
      s \in AllStatuses, pr \in {"urgent", "medium"}, a \in {1, 4} }

StatTable(kinds) ==
    [i \in 1..Len(kinds) |->
        [id |-> i, is_anonymous |-> TRUE, title |-> <<"L", "e", "a", "k">>,
         description |-> <<"p", "i", "p", "e">>, category |-> "hostel",
         priority |-> kinds[i].priority, status |-> kinds[i].status,
         assigned_to |-> kinds[i].assigned_to, ticket_id |-> TicketId(StrfYmd(0), i),
         student_id |-> NULL,
         resolved_at |-> IF sets_resolved_at(kinds[i].status) THEN 0 ELSE NoTime,
         deadline |-> get_deadline(0, kinds[i].priority),
         escalation_level |-> IF kinds[i].status = "escalated" THEN 1 ELSE 0]]

StatTables(rows) == UNION {{StatTable(kinds) : kinds \in [1..n -> StatKinds]} : n \in 0..rows}

InitStats ==
    /\ now \in 0..MaxNow
    /\ users = SeedUsers
    /\ grievances \in StatTables(MaxStatRows)
    /\ updates = [i \in 1..Len(grievances) |->
                     [grievance_id |-> i, user_id |-> NULL,
                      message |-> SubmitMessage, status_change |-> "submitted"]]
    /\ feedbacks = <<>>
    /\ pc = [p \in Procs |-> "idle"]
    /\ req = [p \in Procs |-> Idle]
    /\ response = NoResponse
    /\ served = MaxRequests - 1

NextStats ==
    \/ Tick
    \/ \E p \in Procs : Dashboard(p)

SpecStats == InitStats /\ [][NextStats]_vars

\* ------------------------------------------------ capacity specification
\* generate_ticket_id at the end of the four-digit sequence: the store after
\* DayCapacity - 1 or DayCapacity anonymous submissions of one form on day 0
\* (each with its audit entry), then two more requests.
DayCapacity == 9999

DayTable(n) ==
    [i \in 1..n |->
        [id |-> i, is_anonymous |-> TRUE, title |-> <<"L", "e", "a", "k">>,
         description |-> <<"p", "i", "p", "e">>, category |-> "hostel",
         priority |-> "medium", status |-> "submitted",
         assigned_to |-> auto_assign(SeedUsers, "hostel"),
         ticket_id |-> TicketId(StrfYmd(0), i), student_id |-> NULL,
         resolved_at |-> NoTime, deadline |-> get_deadline(0, "medium"),
         escalation_level |-> 0]]

InitCapacity ==
    /\ now = 0
    /\ users = SeedUsers
    /\ grievances \in {DayTable(DayCapacity - 1), DayTable(DayCapacity)}
    /\ updates = [i \in 1..Len(grievances) |->
                     [grievance_id |-> i, user_id |-> NULL,
                      message |-> SubmitMessage, status_change |-> "submitted"]]
    /\ feedbacks = <<>>
    /\ pc = [p \in Procs |-> "idle"]
    /\ req = [p \in Procs |-> Idle]
    /\ response = NoResponse
    /\ served = MaxRequests - 2

NextCapacity ==
    \/ \E p \in Procs : Submit(p)
    \/ \E p \in Procs : SubmitInsert(p)
    \/ \E p \in Procs : SubmitAudit(p)

SpecCapacity == InitCapacity /\ [][NextCapacity]_vars

\* ------------------------------------------------ lifecycle specification
\* update, escalate and feedback on a grievance already submitted: the store
\* after one anonymous submission on day 0 (with its audit entry), then
\* MaxRequests more requests.
InitLifecycle ==
    /\ now = 0
    /\ users = SeedUsers
    /\ grievances = DayTable(1)
    /\ updates = <<[grievance_id |-> 1, user_id |-> NULL,
                    message |-> SubmitMessage, status_change |-> "submitted"]>>
    /\ feedbacks = <<>>
    /\ pc = [p \in Procs |-> "idle"]
    /\ req = [p \in Procs |-> Idle]
    /\ response = NoResponse
    /\ served = 0

NextLifecycle ==
    \/ Tick
    \/ \E p \in Procs : Update(p)
    \/ \E p \in Procs : Escalate(p)
    \/ \E p \in Procs : EscalateCommit(p)
    \/ \E p \in Procs : Feedback(p)
    \/ \E p \in Procs : FeedbackInsert(p)

SpecLifecycle == InitLifecycle /\ [][NextLifecycle]_vars

\* =================================================================== claims
\* the parts of a stored ticket_id: GRV-<8 characters>-<suffix>
TicketDate(g) == SubSeq(g.ticket_id, 5, 12)
TicketSuffix(g) == SubSeq(g.ticket_id, 14, Len(g.ticket_id))
FeedbackRowsOf(gid) == {i \in 1..Len(feedbacks) : feedbacks[i].grievance_id = gid}
AdminIds == {users[i].id : i \in {j \in 1..Len(users) : users[j].role = "admin"}}

\* C1: under every interleaving of concurrent submissions no two stored
\* grievances have the same ticket_id.
C1_UniqueTicketIds ==
    \A i, j \in 1..Len(grievances) :
        i # j => grievances[i].ticket_id # grievances[j].ticket_id

\* C1 witness: two submissions computed the same identifier; one is stored
\* and the other has just been refused by the constraint.
C1_Witness ==
    /\ response.outcome = "IntegrityError"
    /\ Len(grievances) >= 2
    /\ TicketDate(grievances[1]) = TicketDate(grievances[2])

\* C2: a submission that loses an identifier collision is retried internally
\* and is not surfaced to its caller as a failure.
C2_CollisionNotSurfaced == response.outcome # "IntegrityError"

C4_SecondFeedbackRejected ==
    [][ /\ \A p \in Procs, actor \in Sessions, gid \in 1..Len(grievances),
              form \in FeedbackForms :
               ( /\ FeedbackCheck(p, actor, gid, form)
                 /\ actor # NULL
                 /\ FeedbackRowsOf(gid) # {} )
               => /\ response' = [to |-> p, outcome |-> "info"]
                  /\ pc'[p] = "idle"
                  /\ feedbacks' = feedbacks
        /\ \A i \in 1..Len(feedbacks) :
               Len(feedbacks') >= i /\ feedbacks'[i] = feedbacks[i]
      ]_vars

\* C4 witness: a request has just been refused although the stored feedback
\* was given by one user only (the refusal does not look at the actor).
C4_Witness ==
    /\ response.outcome = "info"
    /\ Len(feedbacks) = 1
    /\ feedbacks[1].rating = 9

\* C5: every grievance has at most one feedback row, also when feedback
\* requests for it interleave.
C5_AtMostOneFeedback ==
    \A gid \in 1..Len(grievances) : Cardinality(FeedbackRowsOf(gid)) <= 1

\* C6: each escalate sets status to escalated, adds exactly one to
\* escalation_level, assigns an admin when one exists (else leaves the
\* assignee) and appends exactly one audit entry tagged escalated naming the
\* new level.
C6_EscalateEffect ==
    [][ \A p \in Procs :
            (pc[p] = "escalate_commit" /\ pc'[p] = "idle")
            => LET gid == req[p].gid
                   before == grievances[gid]
                   after == grievances'[gid]
               IN  /\ after.status = "escalated"
                   /\ after.escalation_level = before.escalation_level + 1
                   /\ IF AdminIds # {}
                      THEN after.assigned_to \in AdminIds
                      ELSE after.assigned_to = before.assigned_to
                   /\ Len(updates') = Len(updates) + 1
                   /\ SubSeq(updates', 1, Len(updates)) = updates
                   /\ updates'[Len(updates')].grievance_id = gid
                   /\ updates'[Len(updates')].status_change = "escalated"
                   /\ updates'[Len(updates')].message[2] = Decimal(after.escalation_level)[1]
      ]_vars

\* C7: a grievance stored as anonymous never has a student owner.
C7_AnonymousHasNoOwner ==
    \A i \in 1..Len(grievances) :
        grievances[i].is_anonymous => grievances[i].student_id = NULL

\* C7 witness: a logged-in student has just had an anonymous grievance stored.
C7_Witness ==
    \E p \in Procs :
        /\ pc[p] = "submit_audit"
        /\ req[p].actor # NULL
        /\ users[req[p].actor].role = "student"
        /\ grievances[req[p].gid].is_anonymous

\* C8: the assignee stored at submission is an authority of the category's
\* department when one exists, else an admin when one exists, else null; and
\* it is the same when the authorities of other departments are taken away.
C8_AssigneeByCategory ==
    \A i \in 1..Len(grievances) :
        LET g == grievances[i]
            authorities == {j \in 1..Len(users) :
                               users[j].role = "authority" /\ users[j].department = g.category}
            Related(u) == u.role # "authority" \/ u.department = g.category
        IN  /\ IF authorities # {} THEN g.assigned_to \in {users[j].id : j \in authorities}
               ELSE IF AdminIds # {} THEN g.assigned_to \in AdminIds
               ELSE g.assigned_to = NULL
            /\ g.assigned_to = auto_assign(SelectSeq(users, Related), g.category)

\* C8 witness: the hostel authority is chosen although an authority of another
\* department and an admin precede it in the table.
C8_Witness ==
    /\ Len(grievances) = 1
    /\ grievances[1].category = "hostel"
    /\ Len(users) >= 2
    /\ users[1].role = "authority" /\ users[1].department = "academic"
    /\ users[2].role = "authority" /\ users[2].department = "hostel"
    /\ grievances[1].assigned_to = 2

\* C9: the deadline computed at submission is the submission time plus 14
\* days for low, 7 for medium, 3 for high, 1 for urgent and 7 for any other
\* priority, and it is the deadline stored.
C9_Days(priority) ==
    IF priority = "low" THEN 14
    ELSE IF priority = "medium" THEN 7
    ELSE IF priority = "high" THEN 3
    ELSE IF priority = "urgent" THEN 1
    ELSE 7

C9_DeadlineByPriority ==
    [][ \A p \in Procs :
            /\ (pc[p] = "idle" /\ pc'[p] = "submit_insert")
               => req'[p].row.deadline = now + C9_Days(req'[p].row.priority)
            /\ (pc[p] = "submit_insert" /\ pc'[p] = "submit_audit")
               => /\ grievances'[Len(grievances')].deadline = req[p].row.deadline
                  /\ grievances'[Len(grievances')].priority = req[p].row.priority
      ]_vars

\* C9 witness: a grievance of unrecognised priority stored with the default.
C9_Witness ==
    /\ Len(grievances) = 1
    /\ grievances[1].priority = "asap"
    /\ grievances[1].deadline = now + 7

\* C10: an update changes status only for an authority or admin actor and
\* the assignee only for an admin actor, appends a non-empty message as
\* exactly one audit entry whatever the role, and by a student leaves status,
\* resolved_at and assigned_to as they were.
C10_UpdatePermissions ==
    [][ \A p \in Procs, actor \in Sessions \ {NULL}, gid \in 1..Len(grievances),
           form \in UpdateForms :
            UpdateWith(p, actor, gid, form)
            => LET role == users[actor].role
                   before == grievances[gid]
                   after == grievances'[gid]
                   message == Strip(form.message)
               IN  /\ after.status # before.status => role \in {"authority", "admin"}
                   /\ after.assigned_to # before.assigned_to => role = "admin"
                   /\ message # <<>>
                      => /\ Len(updates') = Len(updates) + 1
                         /\ SubSeq(updates', 1, Len(updates)) = updates
                         /\ updates'[Len(updates')].grievance_id = gid
                         /\ updates'[Len(updates')].user_id = actor
                         /\ updates'[Len(updates')].message = message
                   /\ role = "student"
                      => /\ after.status = before.status
                         /\ after.resolved_at = before.resolved_at
                         /\ after.assigned_to = before.assigned_to
      ]_vars

\* C10 witness: a student's update with a status field was recorded in the
\* audit trail and the grievance is still in status submitted.
C10_Witness ==
    \E i \in 1..Len(updates) :
        /\ updates[i].user_id # NULL
        /\ users[updates[i].user_id].role = "student"
        /\ updates[i].status_change = "resolved"
        /\ grievances[updates[i].grievance_id].status = "submitted"

\* ------------------------------------------------------------------ pages
\* the response shows grievance gid to a logged-in student
ShownToStudent(gid) ==
    /\ response.outcome \in {"grievance_detail", "track"}
    /\ response.grievance = gid
    /\ response.viewer # NULL
    /\ users[response.viewer].role = "student"

\* C11 as stated: whatever page a student has just been served, the
\* grievance it shows is one whose student_id is that student's id, so an
\* anonymous grievance is never returned to any student.
C11_StudentSeesOnlyOwn ==
    \A gid \in 1..Len(grievances) :
        ShownToStudent(gid) => grievances[gid].student_id = response.viewer

\* C11 amended: the detail view shows a grievance to a student actor exactly
\* when its student_id is the actor's id and otherwise denies the request
\* without data, and it changes nothing in the store; the public track view
\* shows the grievance of a stored ticket id to whoever types it.
C11_DetailOnlyOwn ==
    [][ /\ \A p \in Procs, actor \in Sessions \ {NULL}, gid \in 1..Len(grievances) :
            DetailOf(p, actor, gid) /\ users[actor].role = "student"
            => /\ response' = IF grievances[gid].student_id = actor
                              THEN [to |-> p, outcome |-> "grievance_detail",
                                    viewer |-> actor, grievance |-> gid]
                              ELSE [to |-> p, outcome |-> "denied"]
               /\ UNCHANGED <<users, grievances, updates, feedbacks>>
        /\ \A p \in Procs, actor \in Sessions, gid \in 1..Len(grievances) :
            TrackOf(p, actor, grievances[gid].ticket_id \o <<" ">>)
            => /\ response'.outcome = "track"
               /\ grievances[response'.grievance].ticket_id = grievances[gid].ticket_id
               /\ UNCHANGED <<users, grievances, updates, feedbacks>>
      ]_vars

\* C11 witness: a student was denied the detail view while an anonymous
\* grievance is stored.
C11_Witness ==
    /\ response.outcome = "denied"
    /\ \E gid \in 1..Len(grievances) : grievances[gid].is_anonymous
    /\ \E i \in 1..Len(users) : users[i].role = "student"

\* the audit entries a step appends
Appended == (Len(updates) + 1)..Len(updates')

\* C12: in every step a grievance changes status exactly together with an
\* audit entry tagged with the new status: a status change appends such an
\* entry for the grievance, and an appended entry that carries a
\* status_change tag names the status the grievance now has.
C12_StatusChangeAudited ==
    [][ \A gid \in 1..Len(grievances) :
            /\ grievances'[gid].status # grievances[gid].status
               => \E i \in Appended :
                      /\ updates'[i].grievance_id = gid
                      /\ updates'[i].status_change = grievances'[gid].status
            /\ \A i \in Appended :
                   updates'[i].grievance_id = gid /\ updates'[i].status_change # NoText
                   => grievances'[gid].status = updates'[i].status_change
      ]_vars

\* the fixed enumeration of categories
CategoryEnumeration == {"academic", "administrative", "hostel", "examination"}

\* C13: a submission whose title, description or category is empty, or whose
\* category is outside the enumeration, stores nothing: every stored
\* grievance has a non-empty title and description and a category of the
\* enumeration.
C13_StoredGrievancesValid ==
    \A gid \in 1..Len(grievances) :
        /\ grievances[gid].title # <<>>
        /\ grievances[gid].description # <<>>
        /\ grievances[gid].category \in CategoryEnumeration

\* C14: a grievance in status resolved or closed has resolved_at set, and
\* every update by which an authority or admin sets status resolved or
\* closed succeeds and sets resolved_at to the time of the update, whatever
\* the status before (so a repeated resolve refreshes the timestamp).
C14_ResolvedAtSet ==
    /\ [](\A gid \in 1..Len(grievances) :
              grievances[gid].status \in {"resolved", "closed"}
              => grievances[gid].resolved_at # NoTime)
    /\ [][ \A p \in Procs, actor \in Sessions \ {NULL}, gid \in 1..Len(grievances),
              form \in UpdateForms :
               /\ UpdateWith(p, actor, gid, form)
               /\ users[actor].role \in {"authority", "admin"}
               /\ form.status \in {"resolved", "closed"}
               => /\ response' = [to |-> p, outcome |-> "success"]
                  /\ grievances'[gid].status = form.status
                  /\ grievances'[gid].resolved_at = now
         ]_vars

\* C14 witness: a grievance resolved twice, the second time on a later day,
\* carries the later day as resolved_at.
C14_Witness ==
    \E gid \in 1..Len(grievances) :
        /\ grievances[gid].status = "resolved"
        /\ grievances[gid].resolved_at = now
        /\ now > 0
        /\ \E i, j \in 1..Len(updates) :
               /\ i < j
               /\ updates[i].grievance_id = gid /\ updates[j].grievance_id = gid
               /\ updates[i].status_change = "resolved"
               /\ updates[j].status_change = "resolved"
               /\ users[updates[i].user_id].role \in {"authority", "admin"}
               /\ users[updates[j].user_id].role \in {"authority", "admin"}

\* the rows of the grievance table that the dashboard of a user lists
VisibleTo(actor) ==
    { i \in 1..Len(grievances) :
        /\ users[actor].role = "student" => grievances[i].student_id = actor
        /\ users[actor].role = "authority" => grievances[i].assigned_to = actor }

\* C15: the stats of a dashboard are total = the number of listed
\* grievances, pending = those in submitted, in_review or in_progress,
\* resolved = those in resolved or closed, escalated = those in escalated,
\* overdue = those whose deadline is set and earlier than now and whose
\* status is neither resolved nor closed; computing them changes no
\* grievance.
C15_StatsCounts ==
    [][ \A p \in Procs, actor \in Sessions \ {NULL} :
            DashboardOf(p, actor)
            => LET V == VisibleTo(actor)
                   stats == response'.stats
               IN  /\ stats.total = Cardinality(V)
                   /\ stats.pending = Cardinality({i \in V : grievances[i].status
                          \in {"submitted", "in_review", "in_progress"}})
                   /\ stats.resolved = Cardinality({i \in V : grievances[i].status
                          \in {"resolved", "closed"}})
                   /\ stats.escalated = Cardinality({i \in V :
                          grievances[i].status = "escalated"})
                   /\ stats.overdue = Cardinality({i \in V :
                          /\ grievances[i].deadline # NoTime
                          /\ grievances[i].deadline < now
                          /\ grievances[i].status # "resolved"
                          /\ grievances[i].status # "closed"})
                   /\ grievances' = grievances
      ]_vars

\* C15 witness: a dashboard over three grievances past their deadline, one
\* of them closed, counts two as overdue.
C15_Witness ==
    /\ response.outcome = "dashboard"
    /\ response.stats.total = 3
    /\ response.stats.resolved = 1
    /\ response.stats.overdue = 2
    /\ \A i \in 1..Len(grievances) : grievances[i].deadline < now
    /\ \E i \in 1..Len(grievances) : grievances[i].status = "closed"

\* C16: the per-day sequence never passes 9999: every stored ticket_id has a
\* suffix of exactly four digits (a submit on a day that already has 9999
\* tickets stores nothing).
C16_FourDigitSuffix ==
    \A gid \in 1..Len(grievances) : Len(TicketSuffix(grievances[gid])) = 4

\* C17: every stored feedback has an integer rating between 1 and 5 (a
\* rating out of range is rejected or stored as the default 3).
C17_RatingInRange ==
    \A i \in 1..Len(feedbacks) : feedbacks[i].rating \in 1..5

\* the audit entries that escalate requests wrote for a grievance
EscalationsOf(gid) ==
    { i \in 1..Len(updates) :
        /\ updates[i].grievance_id = gid
        /\ \E level \in 1..MaxRequests : updates[i].message = EscalateMessage(level) }

\* C18: under every interleaving of escalate requests on a grievance no
\* increment is lost: its escalation_level is the initial 0 plus the number
\* of escalates committed, and their audit entries name distinct levels.
C18_NoLostEscalation ==
    \A gid \in 1..Len(grievances) :
        /\ grievances[gid].escalation_level = Cardinality(EscalationsOf(gid))
        /\ \A i, j \in EscalationsOf(gid) :
               i # j => updates[i].message # updates[j].message

\* C19: submit stores the grievance and its audit entry as one unit: in
\* every state every stored grievance has at least one audit entry.
C19_EveryGrievanceAudited ==
    \A gid \in 1..Len(grievances) :
        \E i \in 1..Len(updates) : updates[i].grievance_id = gid

\* C20: no step removes a grievance or touches a stored audit entry: every
\* grievance of a state is in the next state under the same id and
\* ticket_id, and every audit entry of a state is in the next state at the
\* same place with the same grievance, message, actor and status_change tag.
C20_AppendOnly ==
    [][ /\ Len(grievances') >= Len(grievances)
        /\ \A gid \in 1..Len(grievances) :
               /\ grievances'[gid].id = grievances[gid].id
               /\ grievances'[gid].ticket_id = grievances[gid].ticket_id
        /\ Len(updates') >= Len(updates)
        /\ \A i \in 1..Len(updates) : updates'[i] = updates[i]
      ]_vars

\* C20 witness: a grievance submitted, escalated and then resolved with a
\* message: three audit entries in the order written.
C20_Witness ==
    /\ Len(updates) = 3
    /\ updates[1].status_change = "submitted"
    /\ updates[2].status_change = "escalated"
    /\ updates[3].status_change = "resolved"
    /\ grievances[updates[3].grievance_id].status = "resolved"
    /\ grievances[updates[3].grievance_id].escalation_level = 1

\* the step commits an escalate of grievance gid
EscalateCommitOf(gid) ==
    \E p \in Procs :
        pc[p] = "escalate_commit" /\ req[p].gid = gid /\ pc'[p] = "idle"

\* C21: no step changes the ticket_id, category, priority, deadline,
\* is_anonymous or student_id of a stored grievance; escalation_level is
\* changed only by the commit of an escalate, is never negative and never
\* decreases; and a feedback request changes nothing of the store except
\* that its commit adds the feedback row.
C21_FrameConditions ==
    [][ /\ \A gid \in 1..Len(grievances) :
               LET before == grievances[gid]
                   after == grievances'[gid]
               IN  /\ after.ticket_id = before.ticket_id
                   /\ after.category = before.category
                   /\ after.priority = before.priority
                   /\ after.deadline = before.deadline
                   /\ after.is_anonymous = before.is_anonymous
                   /\ after.student_id = before.student_id
                   /\ after.escalation_level # before.escalation_level
                      => EscalateCommitOf(gid)
                   /\ after.escalation_level >= before.escalation_level
                   /\ after.escalation_level >= 0
        /\ \A p \in Procs :
               /\ Feedback(p) => UNCHANGED <<grievances, updates, feedbacks>>
               /\ FeedbackInsert(p)
                  => /\ UNCHANGED <<grievances, updates>>
                     /\ Len(feedbacks') = Len(feedbacks) + 1
                     /\ SubSeq(feedbacks', 1, Len(feedbacks)) = feedbacks
      ]_vars

====
